---- MODULE Spec2Model ----
(***************************************************************************)
(* Model of server/main.py: the FastAPI facade in front of one shared      *)
(* mem0 Memory client.  Handlers are plain `def` functions, so the server  *)
(* runs them on worker threads; each worker is a process of the model and  *)
(* a handler is split at the points where another worker can interleave:   *)
(* the receipt of the request, the read of the global MEMORY_INSTANCE      *)
(* together with the call it dispatches, and the return of that call.      *)
(***************************************************************************)
EXTENDS Integers, Sequences, FiniteSets, TLC

\* Bounds of the model.
NThreads == 2        \* worker threads serving requests at the same time
MaxClients == 3      \* Memory clients ever constructed, the default one included
MaxMsgs == 2         \* length of the message list of a POST /memories body

Threads == 1..NThreads

\* Python's None, as the value of an Optional field left out of the request.
NONE == "<None>"

---------------------------------------------------------------------------
\* Endpoints (the route decorators).
PostConfigure == "POST /configure"
PostMemories == "POST /memories"
GetMemories == "GET /memories"
GetMemory == "GET /memories/{memory_id}"
PostSearch == "POST /search"
PutMemory == "PUT /memories/{memory_id}"
GetHistory == "GET /memories/{memory_id}/history"
DeleteMemory == "DELETE /memories/{memory_id}"
DeleteMemories == "DELETE /memories"
PostReset == "POST /reset"
GetHome == "GET /"

DataEndpoints ==
  {PostMemories, GetMemories, GetMemory, PostSearch, PutMemory, GetHistory,
   DeleteMemory, DeleteMemories, PostReset}

\* class Message: role and content, kept as a pair.
Messages == {<<"user", "hi">>, <<"assistant", "ok">>}

RECURSIVE SeqsUpTo(_, _)
SeqsUpTo(S, n) ==
  IF n = 0 THEN {<<>>}
  ELSE LET shorter == SeqsUpTo(S, n - 1)
       IN shorter \cup {Append(s, x) : s \in {q \in shorter : Len(q) = n - 1}, x \in S}

MessageLists == SeqsUpTo(Messages, MaxMsgs)

\* Values of the optional fields.  "" is the empty string, "{}" the empty dict.
UserIds == {NONE, "", "u1"}
AgentIds == {NONE, "", "a1"}
RunIds == {NONE, "", "r1"}
Mappings == {NONE, "{}"}
Configs == {"cfgA", "cfgBad"}

\* A request, with every field a handler can read; unused ones are NONE.
Req(ep, u, a, r, md, fl, ms, q, id, data, cfg) ==
  [ep |-> ep, user_id |-> u, agent_id |-> a, run_id |-> r, metadata |-> md,
   filters |-> fl, messages |-> ms, query |-> q, memory_id |-> id,
   data |-> data, config |-> cfg]

NoReq == Req(NONE, NONE, NONE, NONE, NONE, NONE, <<>>, NONE, NONE, NONE, NONE)

\* class MemoryCreate
MemoryCreate ==
  {Req(PostMemories, u, a, r, md, NONE, ms, NONE, NONE, NONE, NONE) :
     u \in UserIds, a \in AgentIds, r \in RunIds, md \in Mappings, ms \in MessageLists}

\* class SearchRequest
SearchRequest ==
  {Req(PostSearch, u, a, r, NONE, fl, <<>>, "q", NONE, NONE, NONE) :
     u \in UserIds, a \in AgentIds, r \in RunIds, fl \in Mappings}

\* The query parameters of GET /memories and DELETE /memories.
QueryRequests ==
  {Req(ep, u, a, r, NONE, NONE, <<>>, NONE, NONE, NONE, NONE) :
     ep \in {GetMemories, DeleteMemories}, u \in UserIds, a \in AgentIds, r \in RunIds}

IdRequests ==
  {Req(ep, NONE, NONE, NONE, NONE, NONE, <<>>, NONE, "m1", NONE, NONE) :
     ep \in {GetMemory, GetHistory, DeleteMemory}}
    \cup {Req(PutMemory, NONE, NONE, NONE, NONE, NONE, <<>>, NONE, "m1", "{'text': 't'}", NONE)}

ResetRequest == Req(PostReset, NONE, NONE, NONE, NONE, NONE, <<>>, NONE, NONE, NONE, NONE)
HomeRequest == Req(GetHome, NONE, NONE, NONE, NONE, NONE, <<>>, NONE, NONE, NONE, NONE)

ConfigureRequests ==
  {Req(PostConfigure, NONE, NONE, NONE, NONE, NONE, <<>>, NONE, NONE, NONE, c) : c \in Configs}

Requests ==
  MemoryCreate \cup SearchRequest \cup QueryRequests \cup IdRequests
    \cup {ResetRequest, HomeRequest} \cup ConfigureRequests

\* The requests the model lets overlap: a handler shares nothing with another
\* but MEMORY_INSTANCE, which only set_config writes, so the model runs any
\* number of /configure requests beside each other and beside one request that
\* reads the reference, and serves every other request on its own.
ReadingRequest == Req(GetMemory, NONE, NONE, NONE, NONE, NONE, <<>>, NONE, "m1", NONE, NONE)

---------------------------------------------------------------------------
\* What the backend can answer.
Results == {"result"}
Exceptions == {[cls |-> "ValueError", arg |-> "boom"], [cls |-> "KeyError", arg |-> "m1"]}
NoExc == [cls |-> NONE, arg |-> NONE]

\* str(e): the argument of the exception; a KeyError shows its repr.
str(e) == IF e.cls = "KeyError" THEN "'" \o e.arg \o "'" ELSE e.arg

NoResp == [status |-> 0, detail |-> NONE, body |-> NONE]
HTTPException(status, detail) == [status |-> status, detail |-> detail, body |-> NONE]
Success(body) == [status |-> 200, detail |-> NONE, body |-> body]
\* An exception no handler maps: it leaves set_config as it was raised.
Unhandled(e) == [status |-> -1, detail |-> NONE, body |-> str(e)]

IdentifierRequired == "At least one identifier is required."

---------------------------------------------------------------------------
\* bool(v) of an Optional[str] or Optional[Dict]: None, "" and {} are false.
Truthy(v) == v \notin {NONE, "", "{}"}

\* any([...]) over the values of the named fields.
any(r, keys) == \E k \in keys : Truthy(r[k])

IdentifierFields == {"user_id", "agent_id", "run_id"}

\* Mutant: the test written as `is not None`.
HasIdentifier_IsNotNone(r) == \E k \in IdentifierFields : r[k] # NONE

\* The test `any([user_id, agent_id, run_id])` of the three /memories routes.
HasIdentifier(r) == any(r, IdentifierFields)

\* Mutants: delete_all_memories without the test; search_memories with it.
RequiresIdentifier_NotOnDelete(ep) == ep \in {PostMemories, GetMemories}
RequiresIdentifier_AlsoOnSearch(ep) ==
  ep \in {PostMemories, GetMemories, DeleteMemories, PostSearch}

\* The routes whose handler starts with that test.
RequiresIdentifier(ep) == ep \in {PostMemories, GetMemories, DeleteMemories}

\* Message.model_dump()
model_dump(m) == [role |-> m[1], content |-> m[2]]

\* {k: v for k, v in <fields>.items() if k != <skip> and v is not None}
NotNone(r, fields, skip) ==
  [k \in {f \in fields : f # skip /\ r[f] # NONE} |-> r[k]]

MemoryCreateFields == {"messages", "user_id", "agent_id", "run_id", "metadata"}
SearchRequestFields == {"query", "user_id", "run_id", "agent_id", "filters"}

\* Mutant: the comprehension filtering on `if v` instead of `is not None`.
Params_IfTruthy(r) ==
  [k \in {f \in MemoryCreateFields : f # "messages" /\ Truthy(r[f])} |-> r[k]]

\* add_memory: params and messages as handed to MEMORY_INSTANCE.add
Params(r) == NotNone(r, MemoryCreateFields, "messages")
DumpedMessages(r) == [i \in 1..Len(r.messages) |-> model_dump(r.messages[i])]

\* search_memories: kwargs as handed to MEMORY_INSTANCE.search beside query
SearchKwargs(r) == NotNone(r, SearchRequestFields, "query")

\* get_all_memories, delete_all_memories: the non-None locals()
Locals(r) == NotNone(r, IdentifierFields, NONE)

Call(method, messages, query, kw) ==
  [method |-> method, messages |-> messages, query |-> query, kw |-> kw]

\* The one call on MEMORY_INSTANCE each data handler makes.
BackendCall(r) ==
  CASE r.ep = PostMemories -> Call("add", DumpedMessages(r), NONE, Params(r))
    [] r.ep = GetMemories -> Call("get_all", <<>>, NONE, Locals(r))
    [] r.ep = GetMemory -> Call("get", <<>>, NONE, [k \in {"memory_id"} |-> r.memory_id])
    [] r.ep = PostSearch -> Call("search", <<>>, r.query, SearchKwargs(r))
    [] r.ep = PutMemory ->
         Call("update", <<>>, NONE, [k \in {"memory_id", "data"} |-> r[k]])
    [] r.ep = GetHistory -> Call("history", <<>>, NONE, [k \in {"memory_id"} |-> r.memory_id])
    [] r.ep = DeleteMemory -> Call("delete", <<>>, NONE, [k \in {"memory_id"} |-> r.memory_id])
    [] r.ep = DeleteMemories -> Call("delete_all", <<>>, NONE, Locals(r))
    [] r.ep = PostReset -> Call("reset", <<>>, NONE, [k \in {} |-> NONE])

\* What a data handler returns when the call returned v.
SuccessBody(r, v) ==
  CASE r.ep = DeleteMemory -> "Memory deleted successfully"
    [] r.ep = DeleteMemories -> "All relevant memories deleted"
    [] r.ep = PostReset -> "All memories reset"
    [] OTHER -> v

\* Mutant: a fixed detail in place of the exception's text.
server_error_generic(e) == HTTPException(500, "Internal Server Error")

\* except Exception as e: raise HTTPException(status_code=500, detail=str(e))
server_error(e) == HTTPException(500, str(e))

---------------------------------------------------------------------------
VARIABLES
  MEMORY_INSTANCE,  \* the global: the id of the client requests are served by
  clients,          \* every client ever constructed: its config and its state
  installed,        \* the ids MEMORY_INSTANCE has held, in order of assignment
  returned,         \* the ids whose /configure has answered, in order of answer
  pc,               \* where each worker is in its handler
  req,              \* the request each worker serves
  calls,            \* the backend calls each worker made for its request
  raised,           \* the exception the backend raised to each worker, if any
  resp,             \* the response of each worker's request
  building,         \* the client a worker's set_config is constructing
  recvRet,          \* Len(returned) when the worker received its request
  recvInst          \* Len(installed) when the worker received its request

vars ==
  <<MEMORY_INSTANCE, clients, installed, returned, pc, req, calls, raised, resp,
    building, recvRet, recvInst>>

shared == <<MEMORY_INSTANCE, clients, installed, returned>>

\* Memory.from_config(DEFAULT_CONFIG) at import: client 1 serves from the start.
Init ==
  /\ MEMORY_INSTANCE = 1
  /\ clients = <<[config |-> "DEFAULT_CONFIG", state |-> "built"]>>
  /\ installed = <<1>>
  /\ returned = <<>>
  /\ pc = [t \in Threads |-> "idle"]
  /\ req = [t \in Threads |-> NoReq]
  /\ calls = [t \in Threads |-> <<>>]
  /\ raised = [t \in Threads |-> NoExc]
  /\ resp = [t \in Threads |-> NoResp]
  /\ building = [t \in Threads |-> 0]
  /\ recvRet = [t \in Threads |-> 0]
  /\ recvInst = [t \in Threads |-> 0]

InFlight(t) == pc[t] # "idle"
ConfiguresPending == Cardinality({t \in Threads : pc[t] = "start" /\ req[t].ep = PostConfigure})

\* The requests a free worker can be handed, given what the others serve.
Admissible ==
  IF \A o \in Threads : ~InFlight(o) THEN Requests
  ELSE IF \E o \in Threads : InFlight(o) /\ req[o] \notin ConfigureRequests \cup {ReadingRequest}
    THEN {}
  ELSE IF \E o \in Threads : InFlight(o) /\ req[o] = ReadingRequest THEN ConfigureRequests
  ELSE ConfigureRequests \cup {ReadingRequest}

\* A worker takes a request off the socket.
Receive(t) ==
  /\ pc[t] = "idle"
  /\ \E r \in Admissible :
       /\ r.ep = PostConfigure => Len(clients) + ConfiguresPending < MaxClients
       /\ req' = [req EXCEPT ![t] = r]
  /\ pc' = [pc EXCEPT ![t] = "start"]
  /\ recvRet' = [recvRet EXCEPT ![t] = Len(returned)]
  /\ recvInst' = [recvInst EXCEPT ![t] = Len(installed)]
  /\ UNCHANGED <<shared, calls, raised, resp, building>>

\* home: the redirect to the documentation.
home(t) ==
  /\ pc[t] = "start" /\ req[t].ep = GetHome
  /\ resp' = [resp EXCEPT ![t] = [status |-> 307, detail |-> NONE, body |-> "/docs"]]
  /\ pc' = [pc EXCEPT ![t] = "done"]
  /\ UNCHANGED <<shared, req, calls, raised, building, recvRet, recvInst>>

\* The identifier test of a /memories route fails: HTTPException(400).
reject(t) ==
  /\ pc[t] = "start" /\ req[t].ep \in DataEndpoints
  /\ RequiresIdentifier(req[t].ep) /\ ~HasIdentifier(req[t])
  /\ resp' = [resp EXCEPT ![t] = HTTPException(400, IdentifierRequired)]
  /\ pc' = [pc EXCEPT ![t] = "done"]
  /\ UNCHANGED <<shared, req, calls, raised, building, recvRet, recvInst>>

\* The handler reads MEMORY_INSTANCE and calls the method on what it read.
invoke(t) ==
  /\ pc[t] = "start" /\ req[t].ep \in DataEndpoints
  /\ ~(RequiresIdentifier(req[t].ep) /\ ~HasIdentifier(req[t]))
  /\ calls' = [calls EXCEPT ![t] =
       Append(@, [client |-> MEMORY_INSTANCE, call |-> BackendCall(req[t])])]
  /\ pc' = [pc EXCEPT ![t] = "backend"]
  /\ UNCHANGED <<shared, req, raised, resp, building, recvRet, recvInst>>

\* Mutant: a handler that rebuilds the default client when its call returns.
on_return_rebinds(t, v) ==
  /\ resp' = [resp EXCEPT ![t] = Success(SuccessBody(req[t], v))]
  /\ pc' = [pc EXCEPT ![t] = "done"]
  /\ MEMORY_INSTANCE' = 1
  /\ UNCHANGED <<clients, installed, returned, req, calls, raised, building,
                 recvRet, recvInst>>

\* The call returns v and the handler answers.
on_return(t, v) ==
  /\ resp' = [resp EXCEPT ![t] = Success(SuccessBody(req[t], v))]
  /\ pc' = [pc EXCEPT ![t] = "done"]
  /\ UNCHANGED <<shared, req, calls, raised, building, recvRet, recvInst>>

backend_returns(t) ==
  /\ pc[t] = "backend"
  /\ \E v \in Results : on_return(t, v)

\* Mutant: the except clause tries the call again.
on_exception_retry(t, e) ==
  /\ raised' = [raised EXCEPT ![t] = e]
  /\ pc' = [pc EXCEPT ![t] = "start"]
  /\ UNCHANGED <<shared, req, calls, resp, building, recvRet, recvInst>>

\* The call raises e and the except clause of the handler answers.
on_exception(t, e) ==
  /\ raised' = [raised EXCEPT ![t] = e]
  /\ resp' = [resp EXCEPT ![t] = server_error(e)]
  /\ pc' = [pc EXCEPT ![t] = "done"]
  /\ UNCHANGED <<shared, req, calls, building, recvRet, recvInst>>

backend_raises(t) ==
  /\ pc[t] = "backend"
  /\ \E e \in Exceptions : on_exception(t, e)

\* Mutant: the client is bound to the global first and configured afterwards.
set_config_construct_publishes(t) ==
  /\ pc[t] = "start" /\ req[t].ep = PostConfigure
  /\ clients' = Append(clients, [config |-> req[t].config, state |-> "constructing"])
  /\ building' = [building EXCEPT ![t] = Len(clients) + 1]
  /\ MEMORY_INSTANCE' = Len(clients) + 1
  /\ installed' = Append(installed, Len(clients) + 1)
  /\ pc' = [pc EXCEPT ![t] = "constructing"]
  /\ UNCHANGED <<returned, req, calls, raised, resp, recvRet, recvInst>>

\* set_config: Memory.from_config(config) starts constructing a client.
set_config_construct(t) ==
  /\ pc[t] = "start" /\ req[t].ep = PostConfigure
  /\ clients' = Append(clients, [config |-> req[t].config, state |-> "constructing"])
  /\ building' = [building EXCEPT ![t] = Len(clients) + 1]
  /\ pc' = [pc EXCEPT ![t] = "constructing"]
  /\ UNCHANGED <<MEMORY_INSTANCE, installed, returned, req, calls, raised, resp,
                 recvRet, recvInst>>

\* Mutant: the failure clears the global before it propagates.
set_config_fails_rebinds(t) ==
  /\ pc[t] = "constructing" /\ req[t].config = "cfgBad"
  /\ clients' = [clients EXCEPT ![building[t]].state = "failed"]
  /\ MEMORY_INSTANCE' = 1
  /\ resp' = [resp EXCEPT ![t] = Unhandled([cls |-> "ValueError", arg |-> "bad config"])]
  /\ pc' = [pc EXCEPT ![t] = "done"]
  /\ UNCHANGED <<installed, returned, req, calls, raised, building, recvRet, recvInst>>

\* Memory.from_config raises: nothing in set_config catches it.
set_config_fails(t) ==
  /\ pc[t] = "constructing" /\ req[t].config = "cfgBad"
  /\ clients' = [clients EXCEPT ![building[t]].state = "failed"]
  /\ resp' = [resp EXCEPT ![t] = Unhandled([cls |-> "ValueError", arg |-> "bad config"])]
  /\ pc' = [pc EXCEPT ![t] = "done"]
  /\ UNCHANGED <<MEMORY_INSTANCE, installed, returned, req, calls, raised, building,
                 recvRet, recvInst>>

\* Mutant: the `global` statement left out, so the assignment binds a local.
set_config_assign_local(t) ==
  /\ pc[t] = "constructing" /\ req[t].config # "cfgBad"
  /\ clients' = [clients EXCEPT ![building[t]].state = "built"]
  /\ pc' = [pc EXCEPT ![t] = "assigned"]
  /\ UNCHANGED <<MEMORY_INSTANCE, installed, returned, req, calls, raised, resp,
                 building, recvRet, recvInst>>

\* global MEMORY_INSTANCE; MEMORY_INSTANCE = Memory.from_config(config):
\* from_config returns the finished client and the global is bound to it.  No
\* other worker can reach the client between the two, so they are one step.
set_config_assign(t) ==
  /\ pc[t] = "constructing" /\ req[t].config # "cfgBad"
  /\ clients' = [clients EXCEPT ![building[t]].state = "built"]
  /\ MEMORY_INSTANCE' = building[t]
  /\ installed' = Append(installed, building[t])
  /\ pc' = [pc EXCEPT ![t] = "assigned"]
  /\ UNCHANGED <<returned, req, calls, raised, resp, building, recvRet, recvInst>>

\* return {"message": "Configuration set successfully"}
set_config_return(t) ==
  /\ pc[t] = "assigned"
  /\ resp' = [resp EXCEPT ![t] = Success("Configuration set successfully")]
  /\ returned' = Append(returned, building[t])
  /\ pc' = [pc EXCEPT ![t] = "done"]
  /\ UNCHANGED <<MEMORY_INSTANCE, clients, installed, req, calls, raised, building,
                 recvRet, recvInst>>

\* The response is sent and the worker goes back to the pool.
complete(t) ==
  /\ pc[t] = "done"
  /\ pc' = [pc EXCEPT ![t] = "idle"]
  /\ req' = [req EXCEPT ![t] = NoReq]
  /\ calls' = [calls EXCEPT ![t] = <<>>]
  /\ raised' = [raised EXCEPT ![t] = NoExc]
  /\ resp' = [resp EXCEPT ![t] = NoResp]
  /\ building' = [building EXCEPT ![t] = 0]
  /\ recvRet' = [recvRet EXCEPT ![t] = 0]
  /\ recvInst' = [recvInst EXCEPT ![t] = 0]
  /\ UNCHANGED shared

Next ==
  \E t \in Threads :
    \/ Receive(t)
    \/ home(t)
    \/ reject(t)
    \/ invoke(t)
    \/ backend_returns(t)
    \/ backend_raises(t)
    \/ set_config_construct(t)
    \/ set_config_fails(t)
    \/ set_config_assign(t)
    \/ set_config_return(t)
    \/ complete(t)

Spec == Init /\ [][Next]_vars

---------------------------------------------------------------------------
\* The properties.

MemoriesRoutes == {PostMemories, GetMemories, DeleteMemories}
Answered(t) == pc[t] = "done"
IsIdentifierError(r) == r.status = 400 /\ r.detail = "At least one identifier is required."

\* C1: a request to POST, GET or DELETE /memories with user_id, agent_id and
\* run_id all missing is answered 400 with the identifier-required message, and
\* no method of the backend client is invoked for it.
C1_MissingIdentifiersRejected ==
  \A t \in Threads :
    (/\ req[t].ep \in MemoriesRoutes
     /\ req[t].user_id = NONE /\ req[t].agent_id = NONE /\ req[t].run_id = NONE)
    => /\ calls[t] = <<>>
       /\ pc[t] \in {"start", "done"}
       /\ Answered(t) => IsIdentifierError(resp[t])

C1_Witness ==
  \E t \in Threads :
    /\ Answered(t) /\ req[t].ep = DeleteMemories
    /\ req[t].user_id = NONE /\ req[t].agent_id = NONE /\ req[t].run_id = NONE
    /\ resp[t].status = 400 /\ calls[t] = <<>>

\* C2: on every data-access endpoint, when the backend call raises an exception
\* the response is a 500 whose detail is the string of that exception.
C2_BackendErrorIs500 ==
  \A t \in Threads :
    raised[t] # NoExc =>
      /\ req[t].ep \in DataEndpoints
      /\ Answered(t)
      /\ resp[t].status = 500
      /\ resp[t].detail = (IF raised[t].cls = "KeyError"
                           THEN "'" \o raised[t].arg \o "'" ELSE raised[t].arg)

C2_Witness ==
  \E t \in Threads :
    /\ Answered(t) /\ req[t].ep = DeleteMemory
    /\ raised[t] = [cls |-> "KeyError", arg |-> "m1"]
    /\ resp[t].status = 500 /\ resp[t].detail = "'m1'"

\* C3: for an accepted POST /memories the add operation receives the message
\* list in the request's order, plus exactly those of user_id, agent_id, run_id
\* and metadata that are non-null in the request, each with the request's value,
\* and no other keys.
C3_AddReceivesNonNullFields ==
  \A t \in Threads :
    (req[t].ep = PostMemories /\ calls[t] # <<>>) =>
      LET c == calls[t][1].call
          given == {k \in {"user_id", "agent_id", "run_id", "metadata"} : req[t][k] # NONE}
      IN /\ c.method = "add"
         /\ Len(c.messages) = Len(req[t].messages)
         /\ \A i \in 1..Len(c.messages) :
              /\ c.messages[i].role = req[t].messages[i][1]
              /\ c.messages[i].content = req[t].messages[i][2]
         /\ DOMAIN c.kw = given
         /\ \A k \in given : c.kw[k] = req[t][k]

C3_Witness ==
  \E t \in Threads :
    /\ req[t].ep = PostMemories /\ Len(calls[t]) = 1
    /\ Len(req[t].messages) = 2 /\ req[t].messages[1] # req[t].messages[2]
    /\ req[t].user_id = "" /\ req[t].agent_id = "a1" /\ req[t].run_id = NONE
    /\ req[t].metadata = "{}"
    /\ DOMAIN calls[t][1].call.kw = {"user_id", "agent_id", "metadata"}

\* C4: every POST /search, also one without user_id, agent_id and run_id, invokes
\* the search operation with the request's query plus exactly those of user_id,
\* run_id, agent_id and filters that are non-null; it is never answered 400.
C4_SearchForwardsWithoutIdentifier ==
  \A t \in Threads :
    req[t].ep = PostSearch =>
      /\ resp[t].status # 400
      /\ pc[t] \in {"start", "backend", "done"}
      /\ pc[t] \in {"backend", "done"} =>
           LET given == {k \in {"user_id", "run_id", "agent_id", "filters"} : req[t][k] # NONE}
           IN /\ Len(calls[t]) = 1
              /\ calls[t][1].call.method = "search"
              /\ calls[t][1].call.query = req[t].query
              /\ DOMAIN calls[t][1].call.kw = given
              /\ \A k \in given : calls[t][1].call.kw[k] = req[t][k]

C4_Witness ==
  \E t \in Threads :
    /\ Answered(t) /\ req[t].ep = PostSearch
    /\ req[t].user_id = NONE /\ req[t].agent_id = NONE /\ req[t].run_id = NONE
    /\ req[t].filters = NONE
    /\ resp[t].status = 200 /\ Len(calls[t]) = 1
    /\ DOMAIN calls[t][1].call.kw = {}

\* C7 as claimed: a /memories request is answered with the identifier error only
\* if user_id, agent_id and run_id are all absent; with at least one present,
\* whatever its string value, it is forwarded to the backend operation.
C7_RejectedOnlyIfAllAbsent ==
  \A t \in Threads :
    (req[t].ep \in MemoriesRoutes /\ Answered(t)) =>
      LET allAbsent == \A k \in {"user_id", "agent_id", "run_id"} : req[t][k] = NONE
      IN /\ IsIdentifierError(resp[t]) => allAbsent
         /\ ~allAbsent => Len(calls[t]) = 1

\* C7 as amended: a /memories request is answered with the identifier error
\* exactly when each of user_id, agent_id and run_id is absent or the empty
\* string; with at least one non-empty identifier it is forwarded.
C7_RejectedIffNoNonEmptyIdentifier ==
  \A t \in Threads :
    (req[t].ep \in MemoriesRoutes /\ Answered(t)) =>
      LET noneGiven == \A k \in {"user_id", "agent_id", "run_id"} : req[t][k] \in {NONE, ""}
      IN /\ IsIdentifierError(resp[t]) <=> noneGiven
         /\ noneGiven => calls[t] = <<>>
         /\ ~noneGiven => Len(calls[t]) = 1

C7_Witness ==
  \E t \in Threads :
    /\ Answered(t) /\ req[t].ep = PostMemories
    /\ req[t].user_id = "" /\ req[t].agent_id = NONE /\ req[t].run_id = NONE
    /\ IsIdentifierError(resp[t]) /\ calls[t] = <<>>

\* C8: a request causes at most one invocation of a backend method, and once
\* that invocation has raised, the request is answered without another one.
C8_SingleAttempt ==
  \A t \in Threads :
    /\ Len(calls[t]) <= 1
    /\ req[t].ep \in {PostConfigure, GetHome} => calls[t] = <<>>
    /\ raised[t] # NoExc => Answered(t) /\ Len(calls[t]) = 1

C8_Witness ==
  \E t \in Threads :
    /\ Answered(t) /\ req[t].ep = PutMemory
    /\ raised[t] # NoExc /\ Len(calls[t]) = 1 /\ resp[t].status = 500

---------------------------------------------------------------------------
\* The shared client reference.

\* c was assigned to MEMORY_INSTANCE before k was.
InstalledBefore(c, k) ==
  \E a, b \in 1..Len(installed) : a < b /\ installed[a] = c /\ installed[b] = k

C6_MayBeServedByPartialClient ==
  \A t, r \in Threads :
    (/\ req[t].ep = PostConfigure /\ pc[t] = "constructing"
     /\ req[r].ep = GetMemory /\ pc[r] = "start")
    => ENABLED (invoke(r) /\ calls'[r][1].client = building[t])

\* C6 as amended: a request that runs while a /configure does is served by the
\* client the reference held when the request was received or by one assigned
\* since, and that client is fully constructed; never by one under construction.
C6_ServedByOldOrNewBuiltClient ==
  \A r \in Threads :
    \A i \in 1..Len(calls[r]) :
      /\ clients[calls[r][i].client].state = "built"
      /\ \E j \in recvInst[r]..Len(installed) : installed[j] = calls[r][i].client

\* A request received before the assignment of a /configure that has not yet
\* answered is served by the new client; another, by the old one.
C6_Witness ==
  \E t, r \in Threads :
    /\ req[t].ep = PostConfigure /\ pc[t] = "assigned"
    /\ Len(calls[r]) = 1 /\ recvInst[r] < Len(installed)
    /\ calls[r][1].client = building[t]

\* C9: when the construction of the client fails in /configure the reference is
\* left as it was, the handler maps the failure to no 400 or 500 response, and
\* the client that failed never serves a request.
C9_FailedConfigureKeepsClient ==
  /\ [](/\ \A c \in 1..Len(clients) :
             clients[c].state = "failed" =>
               /\ MEMORY_INSTANCE # c
               /\ \A i \in 1..Len(installed) : installed[i] # c
               /\ \A r \in Threads : \A i \in 1..Len(calls[r]) : calls[r][i].client # c
        /\ \A t \in Threads :
             (req[t].ep = PostConfigure /\ Answered(t)
                /\ clients[building[t]].state = "failed")
             => resp[t].status \notin {200, 400, 500})
  /\ [][\A t \in Threads :
          (pc[t] = "constructing" /\ pc'[t] = "done") =>
            MEMORY_INSTANCE' = MEMORY_INSTANCE]_vars

C9_Witness ==
  \E t, r \in Threads :
    /\ req[t].ep = PostConfigure /\ Answered(t)
    /\ clients[building[t]].state = "failed"
    /\ MEMORY_INSTANCE = 2 /\ building[t] = 3
    /\ Len(calls[r]) = 1 /\ calls[r][1].client = 2

\* C10: only /configure changes the reference: a step of any other handler,
\* whether it succeeds, answers 400 or answers 500, leaves it as it was, and a
\* request uses one client instance for its backend call.
C10_OnlyConfigureChangesReference ==
  /\ [][MEMORY_INSTANCE' # MEMORY_INSTANCE =>
          \E t \in Threads :
            req[t].ep = PostConfigure /\ pc[t] = "constructing" /\ pc'[t] = "assigned"]_vars
  /\ [](\A r \in Threads :
          /\ Cardinality({calls[r][i].client : i \in 1..Len(calls[r])}) <= 1
          /\ (req[r].ep \in DataEndpoints /\ resp[r].status \in {200, 500})
               => Cardinality({calls[r][i].client : i \in 1..Len(calls[r])}) = 1)

C10_Witness ==
  \E r \in Threads :
    /\ req[r].ep = PostReset /\ Answered(r) /\ resp[r].status = 500
    /\ MEMORY_INSTANCE = 2 /\ calls[r][1].client = 2

====
